---- MODULE Spec2Model ----
(***************************************************************************)
(* Model of ESP32/main/esp32_idf.c: the UART receive task of a four-servo  *)
(* pill dispenser.  Bytes are the integers 0..255; a C buffer is a         *)
(* sequence of bytes (rx_len is Len(rx_buf)).                              *)
(***************************************************************************)
EXTENDS Integers, Sequences, FiniteSets, TLC

(* ------------------------------------------------------------------------ *)
(* Program constants (#define lines of the source).                         *)
(* ------------------------------------------------------------------------ *)
BUF_SIZE == 1024
RX_ACCUM_SIZE == 2048
UART_FRAME_START == 170
UART_FRAME_END == 85
UART_FRAME_VER_1 == 1
UART_FRAME_LEN_V1 == 8
SERVO_PERIOD_US == 20000
SERVO_MIN_PULSE_US == 500
SERVO_MAX_PULSE_US == 2500
SERVO_MAX_ANGLE_DEG == 180
SERVO_STEP_COUNT == 40
MOVE_DURATION_MS == 1000
\* the pause after each sweep, "vTaskDelay(pdMS_TO_TICKS(200))"
SWEEP_PAUSE_MS == 200
\* the clamp of a JSON count, "if (count > 20) count = 20"
MAX_JSON_COUNT == 20
\* INT_MAX of the 32-bit int that cJSON's valueint saturates at
INT_MAX == 2147483647

\* character codes the source names
NUL == 0
TAB == 9
NEWLINE == 10
CR == 13
SPACE == 32
LBRACE == 123

Byte == 0..255
Channels == 0..3

Min(a, b) == IF a < b THEN a ELSE b
Max(a, b) == IF a > b THEN a ELSE b

\* s without its first n elements (memmove(buf, buf + n, len - n); len -= n)
Drop(s, n) == SubSeq(s, n + 1, Len(s))
\* the first n elements of s
Take(s, n) == SubSeq(s, 1, n)
\* the last n elements of s
LastN(s, n) == SubSeq(s, Len(s) - n + 1, Len(s))

(* ------------------------------------------------------------------------ *)
(* angle_to_duty: clamp the angle, map it linearly to a pulse width, then   *)
(* to a 16-bit LEDC duty (C unsigned division truncates).                   *)
(* ------------------------------------------------------------------------ *)
angle_to_duty(angle) ==
    LET a == IF angle < 0 THEN 0
             ELSE IF angle > SERVO_MAX_ANGLE_DEG THEN SERVO_MAX_ANGLE_DEG
             ELSE angle
        pulse_us == SERVO_MIN_PULSE_US +
                    (a * (SERVO_MAX_PULSE_US - SERVO_MIN_PULSE_US)) \div SERVO_MAX_ANGLE_DEG
    IN (pulse_us * (65536 - 1)) \div SERVO_PERIOD_US

\* StepAngle with the second pass rising from 0 to 180 like the first
StepAngle_UpTwice(p, i) == (i * SERVO_MAX_ANGLE_DEG) \div SERVO_STEP_COUNT

\* StepAngle with the second pass dividing by steps + 1: it ends above 0
StepAngle_ShortReturn(p, i) ==
    IF p = 0 THEN (i * SERVO_MAX_ANGLE_DEG) \div SERVO_STEP_COUNT
    ELSE SERVO_MAX_ANGLE_DEG - (i * SERVO_MAX_ANGLE_DEG) \div (SERVO_STEP_COUNT + 1)

\* the angle commanded by step i of pass p of move_servo (p = 0: 0 -> 180,
\* p = 1: 180 -> 0)
StepAngle(p, i) ==
    IF p = 0 THEN (i * SERVO_MAX_ANGLE_DEG) \div SERVO_STEP_COUNT
    ELSE SERVO_MAX_ANGLE_DEG - (i * SERVO_MAX_ANGLE_DEG) \div SERVO_STEP_COUNT

\* the per-step delay of move_servo
StepDelay == MOVE_DURATION_MS \div (2 * SERVO_STEP_COUNT)

(* ------------------------------------------------------------------------ *)
(* pill_to_index: the four substance names, as bytes.                       *)
(* ------------------------------------------------------------------------ *)
\* "Vitamin C", "Fish Oil", "Vitamin B", "Tylenol"
PillNames ==
    << <<86, 105, 116, 97, 109, 105, 110, 32, 67>>,
       <<70, 105, 115, 104, 32, 79, 105, 108>>,
       <<86, 105, 116, 97, 109, 105, 110, 32, 66>>,
       <<84, 121, 108, 101, 110, 111, 108>> >>

pill_to_index(pill) ==
    IF pill = PillNames[1] THEN 0
    ELSE IF pill = PillNames[2] THEN 1
    ELSE IF pill = PillNames[3] THEN 2
    ELSE IF pill = PillNames[4] THEN 3
    ELSE -1

ZeroCounts == <<0, 0, 0, 0>>

(* ------------------------------------------------------------------------ *)
(* C strings.  handle_json_command_line and cJSON_Parse read `line` as a    *)
(* NUL-terminated string: what follows the first NUL byte is never read.    *)
(* ------------------------------------------------------------------------ *)
\* the C string held by a char array whose bytes are b, with a NUL written
\* after them ("line[copy_len] = '\0'")
CStr(b) ==
    LET nuls == {i \in 1..Len(b) : b[i] = NUL}
    IN IF nuls = {} THEN b
       ELSE Take(b, (CHOOSE i \in nuls : \A j \in nuls : i <= j) - 1)

\* the char at 1-based index i of the C string s; the terminator past its end
At(s, i) == IF i >= 1 /\ i <= Len(s) THEN s[i] ELSE NUL

(* ------------------------------------------------------------------------ *)
(* cJSON_Parse (the cJSON library, called at line 138), modelled by what it *)
(* does: skip a UTF-8 BOM, skip whitespace (chars <= 32), parse one value   *)
(* (null, false, true, string, number, array, object); what follows the     *)
(* value is not looked at (require_null_terminated is 0).  A value is       *)
(* [ok, next, isnum, valueint, items]: next is the index after the value,   *)
(* items the children of an array or object, each [hasname, name, isnum,    *)
(* valueint] (cJSON's item->string, cJSON_IsNumber(item), item->valueint).  *)
(* The streams of this model hold no backslash, so parse_string's \uXXXX    *)
(* escape is not modelled (it is made to fail the parse).                   *)
(* ------------------------------------------------------------------------ *)
ParseFail == [ok |-> FALSE, next |-> 0, isnum |-> FALSE, valueint |-> 0, items |-> <<>>]

ParseOk(n, isnum, v, items) ==
    [ok |-> TRUE, next |-> n, isnum |-> isnum, valueint |-> v, items |-> items]

\* buffer_skip_whitespace
RECURSIVE SkipWs(_, _)
SkipWs(s, i) == IF i <= Len(s) /\ s[i] <= 32 THEN SkipWs(s, i + 1) ELSE i

\* strncmp(buffer_at_offset, lit, Len(lit)) == 0
StartsWith(s, i, lit) ==
    /\ i + Len(lit) - 1 <= Len(s)
    /\ SubSeq(s, i, i + Len(lit) - 1) = lit

IsDigit(c) == c >= 48 /\ c <= 57

\* the chars parse_number copies for strtod: 0-9 + - e E .
IsNumberChar(c) == IsDigit(c) \/ c \in {43, 45, 101, 69, 46}

RECURSIVE NumberRunEnd(_, _)
NumberRunEnd(s, i) == IF IsNumberChar(At(s, i)) THEN NumberRunEnd(s, i + 1) ELSE i

RECURSIVE DigitsEnd(_, _)
DigitsEnd(s, i) == IF IsDigit(At(s, i)) THEN DigitsEnd(s, i + 1) ELSE i

\* the value of a digit string, saturating at INT_MAX
RECURSIVE DigitsValue(_, _)
DigitsValue(d, v) ==
    IF d = <<>> THEN v
    ELSE LET c == Head(d) - 48
         IN DigitsValue(Tail(d),
                IF v > 214748364 \/ (v = 214748364 /\ c > 7) THEN INT_MAX
                ELSE v * 10 + c)

RECURSIVE StripZeros(_)
StripZeros(d) == IF d # <<>> /\ Head(d) = 48 THEN StripZeros(Tail(d)) ELSE d

Zeros(n) == [k \in 1..n |-> 48]

\* cJSON's saturating conversion to valueint of the double strtod returns for
\* sign, integer digits, fraction digits and decimal exponent.  The double is
\* truncated toward zero as a decimal (its binary rounding is not modelled).
StrtodValue(neg, intDigits, fracDigits, exp) ==
    LET e10 == exp - Len(fracDigits)
        mant == StripZeros(intDigits \o fracDigits)
        n == Len(mant) + e10
        mag == IF mant = <<>> \/ n <= 0 THEN 0
               ELSE IF n > 10 THEN INT_MAX
               ELSE IF e10 >= 0 THEN DigitsValue(mant \o Zeros(e10), 0)
               ELSE DigitsValue(Take(mant, n), 0)
    IN IF ~neg THEN mag
       ELSE IF mag = INT_MAX THEN (0 - INT_MAX) - 1
       ELSE 0 - mag

\* strtod's exponent part, which starts at index e of the run r if anywhere
StrtodExp(r, neg, intDigits, fracDigits, e) ==
    LET q == IF At(r, e + 1) \in {43, 45} THEN e + 2 ELSE e + 1
        expEnd == DigitsEnd(r, q)
        expOk == At(r, e) \in {101, 69} /\ expEnd > q
        expAbs == IF expOk THEN Min(DigitsValue(SubSeq(r, q, expEnd - 1), 0), 1000000) ELSE 0
    IN [ok |-> TRUE,
        len |-> (IF expOk THEN expEnd ELSE e) - 1,
        valueint |-> StrtodValue(neg, intDigits, fracDigits,
                                 IF At(r, e + 1) = 45 THEN 0 - expAbs ELSE expAbs)]

\* strtod's digits: the integer part r[p .. intEnd-1], then a fraction
StrtodDigits(r, neg, p, intEnd) ==
    LET hasDot == At(r, intEnd) = 46
        fracEnd == IF hasDot THEN DigitsEnd(r, intEnd + 1) ELSE intEnd
    IN IF intEnd = p /\ (~hasDot \/ fracEnd = intEnd + 1)
       THEN [ok |-> FALSE, len |-> 0, valueint |-> 0]
       ELSE StrtodExp(r, neg, SubSeq(r, p, intEnd - 1),
                      IF hasDot THEN SubSeq(r, intEnd + 1, fracEnd - 1) ELSE <<>>,
                      fracEnd)

\* strtod on the run r of number chars: [ok, len, valueint], len the chars
\* strtod consumed (0 and not ok when it converts nothing)
Strtod(r) ==
    LET p == IF At(r, 1) \in {43, 45} THEN 2 ELSE 1
    IN StrtodDigits(r, At(r, 1) = 45, p, DigitsEnd(r, p))

NumberValue(i, d) ==
    IF d.ok THEN ParseOk(i + d.len, TRUE, d.valueint, <<>>) ELSE ParseFail

\* parse_number at index i
ParseNumber(s, i) == NumberValue(i, Strtod(SubSeq(s, i, NumberRunEnd(s, i) - 1)))

\* parse_string's scan for the closing quote from index j: its index, or 0
RECURSIVE StringEnd(_, _)
StringEnd(s, j) ==
    IF j > Len(s) THEN 0
    ELSE IF s[j] = 34 THEN j
    ELSE IF s[j] = 92 THEN StringEnd(s, j + 2)
    ELSE StringEnd(s, j + 1)

\* parse_string's copy of the chars b between the quotes, escapes resolved:
\* [ok, str]
RECURSIVE Unescape(_, _)
Unescape(b, acc) ==
    IF b = <<>> THEN [ok |-> TRUE, str |-> acc]
    ELSE IF Head(b) # 92 THEN Unescape(Tail(b), Append(acc, Head(b)))
    ELSE IF Len(b) < 2 THEN [ok |-> FALSE, str |-> <<>>]
    ELSE LET e == b[2]
             c == CASE e = 98 -> 8 [] e = 102 -> 12 [] e = 110 -> 10
                    [] e = 114 -> 13 [] e = 116 -> 9
                    [] e \in {34, 92, 47} -> e
                    [] OTHER -> 0 - 1
         IN IF c < 0 THEN [ok |-> FALSE, str |-> <<>>]
            ELSE Unescape(Drop(b, 2), Append(acc, c))

StringResult(e, u) ==
    IF u.ok THEN [ok |-> TRUE, next |-> e + 1, str |-> u.str]
    ELSE [ok |-> FALSE, next |-> 0, str |-> <<>>]

StringBody(s, i, e) ==
    IF e = 0 THEN [ok |-> FALSE, next |-> 0, str |-> <<>>]
    ELSE StringResult(e, Unescape(SubSeq(s, i + 1, e - 1), <<>>))

\* parse_string at index i: [ok, next, str]
ParseString(s, i) ==
    IF At(s, i) # 34 THEN [ok |-> FALSE, next |-> 0, str |-> <<>>]
    ELSE StringBody(s, i, StringEnd(s, i + 1))

CJSON_NESTING_LIMIT == 1000

RECURSIVE ParseValue(_, _, _)
RECURSIVE ParseMembers(_, _, _, _)
RECURSIVE ParseElements(_, _, _, _)

\* parse_object's loop after a member: a comma and the next key, or the brace
MemberNext(s, m, depth, acc) ==
    IF At(s, m) = 44 THEN ParseMembers(s, SkipWs(s, m + 1), depth, acc)
    ELSE IF At(s, m) = 125 THEN ParseOk(m + 1, FALSE, 0, acc)
    ELSE ParseFail

\* parse_object's loop with the member's value v parsed
MemberValue(s, name, v, depth, acc) ==
    IF ~v.ok THEN ParseFail
    ELSE MemberNext(s, SkipWs(s, v.next), depth,
                    Append(acc, [hasname |-> TRUE, name |-> name,
                                 isnum |-> v.isnum, valueint |-> v.valueint]))

\* parse_object's loop with the member's key parsed
MemberKey(s, key, k, depth, acc) ==
    IF ~key.ok THEN ParseFail
    ELSE IF At(s, k) # 58 THEN ParseFail
    ELSE MemberValue(s, key.str, ParseValue(s, SkipWs(s, k + 1), depth), depth, acc)

MemberColon(s, key, depth, acc) ==
    MemberKey(s, key, IF key.ok THEN SkipWs(s, key.next) ELSE 0, depth, acc)

\* parse_object's loop, at the index j of a member's key
ParseMembers(s, j, depth, acc) == MemberColon(s, ParseString(s, j), depth, acc)

\* parse_array's loop after an element: a comma, or the bracket
ElementNext(s, m, depth, acc) ==
    IF At(s, m) = 44 THEN ParseElements(s, SkipWs(s, m + 1), depth, acc)
    ELSE IF At(s, m) = 93 THEN ParseOk(m + 1, FALSE, 0, acc)
    ELSE ParseFail

ElementValue(s, v, depth, acc) ==
    IF ~v.ok THEN ParseFail
    ELSE ElementNext(s, SkipWs(s, v.next), depth,
                     Append(acc, [hasname |-> FALSE, name |-> <<>>,
                                  isnum |-> v.isnum, valueint |-> v.valueint]))

\* parse_array's loop, at the index j of an element
ParseElements(s, j, depth, acc) == ElementValue(s, ParseValue(s, j, depth), depth, acc)

StringValue(str) == IF str.ok THEN ParseOk(str.next, FALSE, 0, <<>>) ELSE ParseFail

\* parse_array and parse_object after the opening bracket, at index j
ArrayBody(s, j, depth) ==
    IF At(s, j) = 93 THEN ParseOk(j + 1, FALSE, 0, <<>>)
    ELSE ParseElements(s, j, depth + 1, <<>>)

ObjectBody(s, j, depth) ==
    IF At(s, j) = 125 THEN ParseOk(j + 1, FALSE, 0, <<>>)
    ELSE ParseMembers(s, j, depth + 1, <<>>)

\* parse_value at index i, inside `depth` arrays and objects
ParseValue(s, i, depth) ==
    IF StartsWith(s, i, <<110, 117, 108, 108>>) THEN ParseOk(i + 4, FALSE, 0, <<>>)
    ELSE IF StartsWith(s, i, <<102, 97, 108, 115, 101>>) THEN ParseOk(i + 5, FALSE, 0, <<>>)
    ELSE IF StartsWith(s, i, <<116, 114, 117, 101>>) THEN ParseOk(i + 4, FALSE, 1, <<>>)
    ELSE IF At(s, i) = 34 THEN StringValue(ParseString(s, i))
    ELSE IF At(s, i) = 45 \/ IsDigit(At(s, i)) THEN ParseNumber(s, i)
    ELSE IF At(s, i) = 91
         THEN IF depth >= CJSON_NESTING_LIMIT THEN ParseFail
              ELSE ArrayBody(s, SkipWs(s, i + 1), depth)
    ELSE IF At(s, i) = LBRACE
         THEN IF depth >= CJSON_NESTING_LIMIT THEN ParseFail
              ELSE ObjectBody(s, SkipWs(s, i + 1), depth)
    ELSE ParseFail

\* cJSON_Parse(value) on the C string s
cJSON_Parse(s) ==
    LET start == IF StartsWith(s, 1, <<239, 187, 191>>) THEN 4 ELSE 1
    IN ParseValue(s, SkipWs(s, start), 0)

(* ------------------------------------------------------------------------ *)
(* handle_json_command_line's pure part: what it decides for a line.        *)
(* ------------------------------------------------------------------------ *)
\* "Trim leading whitespace": the loop over ' ', '\t', '\r', '\n'
RECURSIVE TrimLeading(_)
TrimLeading(s) ==
    IF s # <<>> /\ Head(s) \in {SPACE, TAB, CR, NEWLINE} THEN TrimLeading(Tail(s)) ELSE s

\* ClampCount without "if (count > 20) count = 20"
ClampCount_NoCeiling(v) == IF v < 0 THEN 0 ELSE v

\* ClampCount without "if (count < 0) count = 0"
ClampCount_NoFloor(v) == IF v > MAX_JSON_COUNT THEN MAX_JSON_COUNT ELSE v

\* the clamp of item->valueint into 0..20
ClampCount(v) ==
    IF v < 0 THEN 0 ELSE IF v > MAX_JSON_COUNT THEN MAX_JSON_COUNT ELSE v

\* the cJSON_ArrayForEach loop: items in order, a later item overwriting an
\* earlier one of the same name
RECURSIVE ApplyItems(_, _)
ApplyItems(items, c) ==
    IF items = <<>> THEN c
    ELSE LET item == Head(items)
             i == IF item.hasname /\ item.isnum THEN pill_to_index(item.name) ELSE -1
         IN ApplyItems(Tail(items),
                       IF i < 0 THEN c ELSE [c EXCEPT ![i + 1] = ClampCount(item.valueint)])

\* what follows cJSON_Parse: "bad_json", or the item loop and "done"
JsonOutcome(json) ==
    IF ~json.ok THEN [outcome |-> "bad_json", counts |-> ZeroCounts]
    ELSE [outcome |-> "done", counts |-> ApplyItems(json.items, ZeroCounts)]

\* TrimmedOutcome without "if (*line == '\0') return;"
TrimmedOutcome_NoEmptyReturn(t) == JsonOutcome(cJSON_Parse(t))

TrimmedOutcome(t) ==
    IF t = <<>> THEN [outcome |-> "ignored", counts |-> ZeroCounts]
    ELSE JsonOutcome(cJSON_Parse(t))

\* [outcome, counts]: "ignored" (return without a reply), "bad_json" or "done"
handle_json_command_line(line) == TrimmedOutcome(TrimLeading(CStr(line)))

(* ------------------------------------------------------------------------ *)
(* try_handle_sauron_frame's pure part: the verdict (0, -1 or 1) on the     *)
(* bytes at the buffer head, and the counts a valid frame carries.          *)
(* ------------------------------------------------------------------------ *)
FrameChecksum(frame) == (frame[2] + frame[3] + frame[4] + frame[5] + frame[6]) % 256

try_handle_sauron_frame(frame) ==
    IF Len(frame) < UART_FRAME_LEN_V1 THEN 0
    ELSE IF frame[1] # UART_FRAME_START THEN 0
    ELSE IF frame[UART_FRAME_LEN_V1] # UART_FRAME_END THEN -1
    ELSE IF frame[2] # UART_FRAME_VER_1 THEN -1
    ELSE IF FrameChecksum(frame) # frame[7] THEN -1
    ELSE 1

\* FrameCounts with each count clamped the way a JSON count is
FrameCounts_Clamped(frame) ==
    <<ClampCount(frame[3]), ClampCount(frame[4]), ClampCount(frame[5]), ClampCount(frame[6])>>

FrameCounts(frame) == <<frame[3], frame[4], frame[5], frame[6]>>

(* ------------------------------------------------------------------------ *)
(* uart_task's append of `data` (len = Len(data) bytes read) to rx_buf,     *)
(* lines 195-211.  In the first branch len is overwritten by RX_ACCUM_SIZE  *)
(* before it indexes data, so the copy starts at &data[0].                  *)
(* ------------------------------------------------------------------------ *)
\* AppendChunk with the eviction left out
AppendChunk_NoEvict(buf, data) == buf \o data

\* AppendChunk dropping the whole old buffer whenever there is an overflow
AppendChunk_EvictAll(buf, data) ==
    IF Len(data) > RX_ACCUM_SIZE THEN Take(data, RX_ACCUM_SIZE)
    ELSE IF Len(buf) + Len(data) > RX_ACCUM_SIZE THEN data
    ELSE buf \o data

AppendChunk(buf, data) ==
    IF Len(data) > RX_ACCUM_SIZE THEN Take(data, RX_ACCUM_SIZE)
    ELSE LET overflow == (Len(buf) + Len(data)) - RX_ACCUM_SIZE
             kept == IF Len(buf) + Len(data) > RX_ACCUM_SIZE
                     THEN IF overflow >= Len(buf) THEN <<>> ELSE Drop(buf, overflow)
                     ELSE buf
         IN kept \o data

\* MemChr finding nothing
MemChr_Never(buf, c) == 0

\* memchr(rx_buf, c, rx_len): the 1-based index of the first c, or 0
MemChr(buf, c) ==
    LET at == {i \in 1..Len(buf) : buf[i] = c}
    IN IF at = {} THEN 0 ELSE CHOOSE i \in at : \A j \in at : i <= j

(* ------------------------------------------------------------------------ *)
(* move_servo: 2 * (SERVO_STEP_COUNT + 1) steps, each ledc_set_duty,        *)
(* ledc_update_duty, vTaskDelay(step_delay).                                *)
(* ------------------------------------------------------------------------ *)
\* the <<pass, i>> of the k-th step, in program order
SweepStep(k) ==
    IF k <= SERVO_STEP_COUNT + 1 THEN <<0, k - 1>> ELSE <<1, k - (SERVO_STEP_COUNT + 2)>>

\* the duties a call of move_servo commands, in order
SweepDuties ==
    [k \in 1..(2 * (SERVO_STEP_COUNT + 1)) |->
        angle_to_duty(StepAngle(SweepStep(k)[1], SweepStep(k)[2]))]

\* the duty registers after move_servo(&servos[ch])
move_servo(d, ch) == [d EXCEPT ![ch] = SweepDuties[Len(SweepDuties)]]

(* ------------------------------------------------------------------------ *)
(* State.                                                                   *)
(* ------------------------------------------------------------------------ *)
VARIABLES
    stream,     \* the bytes the serial peer sends, in order
    nread,      \* how many of them uart_read_bytes has returned so far
    rx_buf,     \* uart_task's accumulation buffer, rx_buf[0 .. rx_len-1]
    pc,         \* where uart_task is: "read", "parse", "exec" or "ack"
    counts,     \* the counts[4] of the command being dispatched
    status,     \* the status the pending send_ack_json will carry
    proto,      \* the protocol the pending send_ack_json will carry
    idx,        \* execute_channel_counts: the channel loop's idx
    rep,        \* execute_channel_counts: the repetition loop's i
    duty,       \* the duty ledc_set_duty has last set for each channel
    hw_duty,    \* the duty each channel puts out (set by ledc_update_duty)
    step,       \* move_servo: the step it is at, 1..82 (0: not in move_servo)
    wait,       \* the milliseconds of the vTaskDelay move_servo is suspended in
    passes,     \* history: consuming iterations of the parse loop since the read
    len0,       \* history: rx_len when the parse loop was entered
    sweeps,     \* history: the channels swept so far in this dispatch
    acks,       \* history: every reply written by send_ack_json, in order
    nFrames,    \* history: frames try_handle_sauron_frame has accepted
    nLines,     \* history: lines extracted that were not all whitespace
    evicted     \* history: bytes the append has dropped from rx_buf

vars == <<stream, nread, rx_buf, pc, counts, status, proto, idx, rep, duty,
          hw_duty, step, wait, passes, len0, sweeps, acks, nFrames, nLines, evicted>>

servoVars == <<duty, hw_duty, step, wait>>

dispatchVars == <<counts, status, proto, idx, rep, sweeps>>

Remaining == Len(stream) - nread

\* a line of spaces, tabs and carriage returns (or an empty line)
IsBlank(line) == \A i \in 1..Len(line) : line[i] \in {SPACE, TAB, CR}

InitTask ==
    /\ nread = 0
    /\ rx_buf = <<>>
    /\ pc = "read"
    /\ counts = ZeroCounts
    /\ status = ""
    /\ proto = ""
    /\ idx = 0
    /\ rep = 0
    /\ duty = [c \in Channels |-> angle_to_duty(0)]
    /\ hw_duty = [c \in Channels |-> angle_to_duty(0)]
    /\ step = 0
    /\ wait = 0
    /\ passes = 0
    /\ len0 = 0
    /\ sweeps = <<>>
    /\ acks = <<>>
    /\ nFrames = 0
    /\ nLines = 0
    /\ evicted = 0

(* ------------------------------------------------------------------------ *)
(* uart_task, one action per stretch of code between two suspension points  *)
(* or loop heads.                                                           *)
(* ------------------------------------------------------------------------ *)
\* uart_read_bytes returns the next n bytes (len = n > 0), which are appended
ReadN(n) ==
    /\ pc = "read"
    /\ n >= 1
    /\ n <= Remaining
    /\ rx_buf' = AppendChunk(rx_buf, SubSeq(stream, nread + 1, nread + n))
    /\ evicted' = evicted + ((Len(rx_buf) + n) - Len(rx_buf'))
    /\ nread' = nread + n
    /\ pc' = "parse"
    /\ passes' = 0
    /\ len0' = Len(rx_buf')
    /\ UNCHANGED <<stream, dispatchVars, servoVars, acks, nFrames, nLines>>

\* uart_read_bytes(UART_PORT_NUM, data, BUF_SIZE - 1, 100 ms): any tearing
Read == \E n \in 1..Min(BUF_SIZE - 1, Remaining) : ReadN(n)

\* uart_read_bytes times out (len <= 0): vTaskDelay(10) and read again
ReadTimeout ==
    /\ pc = "read"
    /\ UNCHANGED vars

\* the start of a dispatch: execute_channel_counts(c), then the reply
StartDispatch(c, protocol) ==
    /\ counts' = c
    /\ status' = "done"
    /\ proto' = protocol
    /\ idx' = 0
    /\ rep' = 0
    /\ sweeps' = <<>>
    /\ pc' = "exec"

\* the call handle_json_command_line(line), h what it decides: return at
\* once, reply "bad_json", or dispatch
HandleLine(h) ==
    IF h.outcome = "ignored"
    THEN /\ pc' = "parse"
         /\ UNCHANGED dispatchVars
    ELSE IF h.outcome = "bad_json"
    THEN /\ pc' = "ack"
         /\ status' = "bad_json"
         /\ proto' = "json_line"
         /\ counts' = h.counts
         /\ UNCHANGED <<idx, rep, sweeps>>
    ELSE StartDispatch(h.counts, "json_line")

\* one iteration of "while (rx_len > 0)", up to the call that dispatches
ParseStep ==
    /\ pc = "parse"
    /\ UNCHANGED <<stream, nread, servoVars, acks, evicted>>
    /\ IF rx_buf = <<>>
       THEN /\ pc' = "read"
            /\ passes' = 0
            /\ len0' = 0
            /\ UNCHANGED <<rx_buf, dispatchVars, nFrames, nLines>>
       ELSE IF rx_buf[1] = UART_FRAME_START
       THEN IF Len(rx_buf) < UART_FRAME_LEN_V1
            THEN /\ pc' = "read"
                 /\ passes' = 0
                 /\ len0' = 0
                 /\ UNCHANGED <<rx_buf, dispatchVars, nFrames, nLines>>
            ELSE IF try_handle_sauron_frame(rx_buf) > 0
            THEN /\ StartDispatch(FrameCounts(rx_buf), "SAURON_UART_V1")
                 /\ nFrames' = nFrames + 1
                 /\ UNCHANGED <<rx_buf, nLines, passes, len0>>
            ELSE /\ rx_buf' = Drop(rx_buf, 1)
                 /\ pc' = "parse"
                 /\ passes' = passes + 1
                 /\ UNCHANGED <<dispatchVars, nFrames, nLines, len0>>
       ELSE LET newline == MemChr(rx_buf, NEWLINE)
            IN IF newline = 0
               THEN IF rx_buf[1] \notin {LBRACE, SPACE, TAB, CR}
                    THEN /\ rx_buf' = Drop(rx_buf, 1)
                         /\ pc' = "parse"
                         /\ passes' = passes + 1
                         /\ UNCHANGED <<dispatchVars, nFrames, nLines, len0>>
                    ELSE /\ pc' = "read"
                         /\ passes' = 0
                         /\ len0' = 0
                         /\ UNCHANGED <<rx_buf, dispatchVars, nFrames, nLines>>
               ELSE /\ rx_buf' = Drop(rx_buf, newline)
                    /\ nLines' = IF IsBlank(Take(rx_buf, newline - 1)) THEN nLines ELSE nLines + 1
                    /\ passes' = passes + 1
                    /\ UNCHANGED <<nFrames, len0>>
                    /\ HandleLine(handle_json_command_line(
                                      Take(rx_buf, Min(newline - 1, BUF_SIZE - 1))))

\* ExecStep with the repetition counter i not set back to 0 for a new channel
ExecStep_NoReset ==
    /\ pc = "exec"
    /\ UNCHANGED <<stream, nread, rx_buf, counts, status, proto, acks,
                   nFrames, nLines, evicted, step, wait, passes, len0>>
    /\ IF idx >= 4
       THEN /\ pc' = "ack"
            /\ UNCHANGED <<idx, rep, duty, hw_duty, sweeps>>
       ELSE IF counts[idx + 1] <= 0 \/ rep >= counts[idx + 1]
       THEN /\ idx' = idx + 1
            /\ UNCHANGED <<pc, rep, duty, hw_duty, sweeps>>
       ELSE /\ duty' = move_servo(duty, idx)
            /\ hw_duty' = move_servo(hw_duty, idx)
            /\ sweeps' = Append(sweeps, idx)
            /\ rep' = rep + 1
            /\ UNCHANGED <<pc, idx>>

\* execute_channel_counts: the loop heads, and one move_servo with its pause
ExecStep ==
    /\ pc = "exec"
    /\ UNCHANGED <<stream, nread, rx_buf, counts, status, proto, acks,
                   nFrames, nLines, evicted, step, wait, passes, len0>>
    /\ IF idx >= 4
       THEN /\ pc' = "ack"
            /\ UNCHANGED <<idx, rep, duty, hw_duty, sweeps>>
       ELSE IF counts[idx + 1] <= 0 \/ rep >= counts[idx + 1]
       THEN /\ idx' = idx + 1
            /\ rep' = 0
            /\ UNCHANGED <<pc, duty, hw_duty, sweeps>>
       ELSE /\ duty' = move_servo(duty, idx)
            /\ hw_duty' = move_servo(hw_duty, idx)
            /\ sweeps' = Append(sweeps, idx)
            /\ rep' = rep + 1
            /\ UNCHANGED <<pc, idx>>

\* SendAck without the memmove that consumes an accepted frame
SendAck_NoConsume ==
    /\ pc = "ack"
    /\ acks' = Append(acks, [status |-> status, protocol |-> proto, counts |-> counts])
    /\ pc' = "parse"
    /\ counts' = ZeroCounts
    /\ status' = ""
    /\ proto' = ""
    /\ idx' = 0
    /\ rep' = 0
    /\ sweeps' = <<>>
    /\ passes' = IF proto = "SAURON_UART_V1" THEN passes + 1 ELSE passes
    /\ UNCHANGED <<stream, nread, rx_buf, servoVars, len0, nFrames, nLines, evicted>>

\* send_ack_json, and the return to the parse loop: after a frame, the
\* "memmove(rx_buf, rx_buf + UART_FRAME_LEN_V1, ...)" that consumes it
SendAck ==
    /\ pc = "ack"
    /\ acks' = Append(acks, [status |-> status, protocol |-> proto, counts |-> counts])
    /\ rx_buf' = IF proto = "SAURON_UART_V1" THEN Drop(rx_buf, UART_FRAME_LEN_V1) ELSE rx_buf
    /\ pc' = "parse"
    /\ counts' = ZeroCounts
    /\ status' = ""
    /\ proto' = ""
    /\ idx' = 0
    /\ rep' = 0
    /\ sweeps' = <<>>
    /\ passes' = IF proto = "SAURON_UART_V1" THEN passes + 1 ELSE passes
    /\ UNCHANGED <<stream, nread, servoVars, len0, nFrames, nLines, evicted>>

(* ------------------------------------------------------------------------ *)
(* execute_channel_counts and move_servo step by step: each ledc_set_duty,  *)
(* ledc_update_duty and vTaskDelay of a sweep is a step of its own.  pc is  *)
(* "set", "update" or "delay" inside move_servo and "pause" in the          *)
(* vTaskDelay(200) that follows it.                                         *)
(* ------------------------------------------------------------------------ *)
\* ExecEnter with the repetition loop running while i <= count, and no
\* "if (count <= 0) continue": one sweep more than counted
ExecEnter_OneMore ==
    /\ pc = "exec"
    /\ UNCHANGED <<stream, nread, rx_buf, counts, status, proto, acks,
                   nFrames, nLines, evicted, duty, hw_duty, wait, passes, len0, sweeps>>
    /\ IF idx >= 4
       THEN /\ pc' = "ack"
            /\ UNCHANGED <<idx, rep, step>>
       ELSE IF rep > counts[idx + 1]
       THEN /\ idx' = idx + 1
            /\ rep' = 0
            /\ UNCHANGED <<pc, step>>
       ELSE /\ pc' = "set"
            /\ step' = 1
            /\ UNCHANGED <<idx, rep>>

\* the loop heads of execute_channel_counts, up to the call of move_servo
ExecEnter ==
    /\ pc = "exec"
    /\ UNCHANGED <<stream, nread, rx_buf, counts, status, proto, acks,
                   nFrames, nLines, evicted, duty, hw_duty, wait, passes, len0, sweeps>>
    /\ IF idx >= 4
       THEN /\ pc' = "ack"
            /\ UNCHANGED <<idx, rep, step>>
       ELSE IF counts[idx + 1] <= 0 \/ rep >= counts[idx + 1]
       THEN /\ idx' = idx + 1
            /\ rep' = 0
            /\ UNCHANGED <<pc, step>>
       ELSE /\ pc' = "set"
            /\ step' = 1
            /\ UNCHANGED <<idx, rep>>

\* ledc_set_duty(LEDC_HIGH_SPEED_MODE, s->channel, duty) of the current step
SetDuty ==
    /\ pc = "set"
    /\ duty' = [duty EXCEPT ![idx] = SweepDuties[step]]
    /\ pc' = "update"
    /\ UNCHANGED <<stream, nread, rx_buf, dispatchVars, hw_duty, step, wait, passes, len0,
                   acks, nFrames, nLines, evicted>>

\* ledc_update_duty(LEDC_HIGH_SPEED_MODE, s->channel), and the task suspends
\* in vTaskDelay(pdMS_TO_TICKS(step_delay))
UpdateDuty ==
    /\ pc = "update"
    /\ hw_duty' = [hw_duty EXCEPT ![idx] = duty[idx]]
    /\ wait' = StepDelay
    /\ pc' = "delay"
    /\ UNCHANGED <<stream, nread, rx_buf, dispatchVars, duty, step, passes, len0,
                   acks, nFrames, nLines, evicted>>

\* the delay of a step is over: the next step, or after the last one the
\* return from move_servo into vTaskDelay(pdMS_TO_TICKS(200))
StepWake ==
    /\ pc = "delay"
    /\ IF step < Len(SweepDuties)
       THEN /\ step' = step + 1
            /\ wait' = 0
            /\ pc' = "set"
       ELSE /\ step' = 0
            /\ wait' = SWEEP_PAUSE_MS
            /\ pc' = "pause"
    /\ UNCHANGED <<stream, nread, rx_buf, dispatchVars, duty, hw_duty, passes, len0,
                   acks, nFrames, nLines, evicted>>

\* the pause is over: "i++" of the repetition loop
PauseWake ==
    /\ pc = "pause"
    /\ wait' = 0
    /\ rep' = rep + 1
    /\ sweeps' = Append(sweeps, idx)
    /\ pc' = "exec"
    /\ UNCHANGED <<stream, nread, rx_buf, counts, status, proto, idx, duty, hw_duty, step,
                   passes, len0, acks, nFrames, nLines, evicted>>

(* ------------------------------------------------------------------------ *)
(* The parse loop as a function: the replies uart_task writes, in order,    *)
(* when its while loop runs on the buffer `buf`, after the replies `out`.   *)
(* ------------------------------------------------------------------------ *)
\* the replies after handle_json_command_line has decided h for a line
LineReplies(out, h) ==
    IF h.outcome = "ignored" THEN out
    ELSE Append(out, [status |-> h.outcome, protocol |-> "json_line", counts |-> h.counts])

RECURSIVE ParseLoop(_, _)
\* path B of an iteration, newline what memchr has returned
ParseLoopLine(buf, out, newline) ==
    IF newline = 0
    THEN IF buf[1] \notin {LBRACE, SPACE, TAB, CR} THEN ParseLoop(Drop(buf, 1), out) ELSE out
    ELSE ParseLoop(Drop(buf, newline),
                   LineReplies(out, handle_json_command_line(
                                        Take(buf, Min(newline - 1, BUF_SIZE - 1)))))

ParseLoop(buf, out) ==
    IF buf = <<>> THEN out
    ELSE IF buf[1] = UART_FRAME_START
    THEN IF Len(buf) < UART_FRAME_LEN_V1 THEN out
         ELSE IF try_handle_sauron_frame(buf) > 0
         THEN ParseLoop(Drop(buf, UART_FRAME_LEN_V1),
                        Append(out, [status |-> "done", protocol |-> "SAURON_UART_V1",
                                     counts |-> FrameCounts(buf)]))
         ELSE ParseLoop(Drop(buf, 1), out)
    ELSE ParseLoopLine(buf, out, MemChr(buf, NEWLINE))

(* ------------------------------------------------------------------------ *)
(* The serial peer: what it may send.                                       *)
(* ------------------------------------------------------------------------ *)
\* how many messages a stream of Spec is made of, at most
MaxMsgs == 2
\* how many junk bytes a stream of SpecFlood and SpecIngest ends with
FloodLen == 2600

\* a well-formed SAURON_UART_V1 frame carrying the four counts c
Frame(c) ==
    <<UART_FRAME_START, UART_FRAME_VER_1, c[1], c[2], c[3], c[4],
      (UART_FRAME_VER_1 + c[1] + c[2] + c[3] + c[4]) % 256, UART_FRAME_END>>

\* a frame with both markers and the version right and the checksum off by d
BadChecksumFrame(c, d) ==
    <<UART_FRAME_START, UART_FRAME_VER_1, c[1], c[2], c[3], c[4],
      (UART_FRAME_VER_1 + c[1] + c[2] + c[3] + c[4] + d) % 256, UART_FRAME_END>>

\* the decimal digits of n >= 0, and the decimal text of an integer
RECURSIVE DecDigits(_)
DecDigits(n) == IF n < 10 THEN <<48 + n>> ELSE Append(DecDigits(n \div 10), 48 + (n % 10))

Dec(v) == IF v < 0 THEN <<45>> \o DecDigits(0 - v) ELSE DecDigits(v)

\* the line {"<name>":<v>}\n
Line1(name, v) == <<LBRACE, 34>> \o name \o <<34, 58>> \o Dec(v) \o <<125, NEWLINE>>

\* the line {"<n1>":<v1>,"<n2>":<v2>}\n
Line2(n1, v1, n2, v2) ==
    <<LBRACE, 34>> \o n1 \o <<34, 58>> \o Dec(v1) \o <<44, 34>> \o n2 \o <<34, 58>>
        \o Dec(v2) \o <<125, NEWLINE>>

\* the values a line of the model gives a substance
LineValues == {-5, 0, 1, 20, 21, 9999}

\* the payloads the frames of the model carry
FramePayloads ==
    {<<0, 0, 0, 0>>, <<1, 0, 0, 0>>, <<0, 2, 0, 1>>, <<20, 0, 0, 0>>, <<0, 0, 21, 0>>,
     <<10, 0, 0, 1>>, <<32, 0, 0, 0>>, <<0, 0, 0, 255>>, <<255, 1, 0, 0>>}

\* "not json\n"
NotJsonLine == <<110, 111, 116, 32, 106, 115, 111, 110, NEWLINE>>
\* {"foo":1}\n, an unrecognized key
FooLine == <<LBRACE, 34, 102, 111, 111, 34, 58, 49, 125, NEWLINE>>
\* {"Vitamin B":"x"}\n, a value that is no number
TextValueLine == <<LBRACE, 34>> \o PillNames[3] \o <<34, 58, 34, 120, 34, 125, NEWLINE>>
\* " \r\n", a line of whitespace
BlankLine == <<SPACE, CR, NEWLINE>>
\* a NUL byte and a newline
NulLine == <<NUL, NEWLINE>>
\* "7\n", a JSON value that is no object
NumberLine == <<55, NEWLINE>>
\* two bytes of line noise, "x~"
Noise == <<120, 126>>

\* frames whose checksum is wrong: all other bytes noise; a payload byte a
\* space; a payload byte a newline
BadFramePlain == BadChecksumFrame(<<1, 0, 0, 0>>, 1)
BadFrameSpace == BadChecksumFrame(<<SPACE, 0, 0, 0>>, 1)
BadFrameNewline == BadChecksumFrame(<<NEWLINE, 0, 0, 0>>, 1)

\* the messages streams of several messages are made of
LightMenu ==
    {Frame(<<1, 0, 0, 0>>), Frame(<<0, 2, 0, 1>>),
     BadFramePlain, BadFrameSpace, BadFrameNewline,
     Line1(PillNames[1], 2), NotJsonLine, BlankLine, NulLine, Noise}

\* the messages sent alone
SoloMenu ==
    {Frame(c) : c \in FramePayloads}
    \cup {Line1(PillNames[k], v) : k \in 1..4, v \in LineValues}
    \cup {Line2(PillNames[3], 1, PillNames[2], 2), Line2(PillNames[1], 1, PillNames[1], 3),
          FooLine, TextValueLine, NumberLine}

RECURSIVE Concat(_)
Concat(msgs) == IF msgs = <<>> THEN <<>> ELSE Head(msgs) \o Concat(Tail(msgs))

\* the streams of Spec
Scripts ==
    SoloMenu \cup {Concat(ms) : ms \in UNION {[1..n -> LightMenu] : n \in 1..MaxMsgs}}

\* the streams of SpecSweep: commands of at most three sweeps, alone or
\* behind a line the task answers without a sweep
SweepScripts ==
    {pre \o cmd :
        pre \in {<<>>, BlankLine, NotJsonLine},
        cmd \in {Frame(<<1, 0, 0, 0>>), Frame(<<0, 2, 0, 1>>), Frame(<<0, 0, 0, 0>>),
                 Line1(PillNames[4], 1), Line1(PillNames[1], 2), FooLine}}

\* junk no parse step consumes while it heads the buffer with no newline
\* behind it: "{a b\tc", repeated
JunkPattern == <<LBRACE, 97, SPACE, 98, TAB, 99, CR>>
Junk(n) == [k \in 1..n |-> JunkPattern[((k - 1) % Len(JunkPattern)) + 1]]

\* the streams of SpecFlood and SpecIngest: a command or nothing, junk, and
\* at last a newline or nothing
FloodStreams ==
    {pre \o Junk(FloodLen) \o post :
        pre \in {<<>>, Frame(<<1, 0, 0, 0>>), Line1(PillNames[1], 2), Noise},
        post \in {<<>>, <<NEWLINE>>}}

\* the read sizes of SpecFlood (each one uart_read_bytes can return), and the
\* chunk sizes of SpecIngest (ingest taken as a function of any chunk)
FloodLens == {50, 130, 300, 1000, BUF_SIZE - 1}
IngestLens ==
    {300, BUF_SIZE - 1, RX_ACCUM_SIZE - 1, RX_ACCUM_SIZE, RX_ACCUM_SIZE + 1, RX_ACCUM_SIZE + 9}

ReadFlood == \E n \in FloodLens : n <= BUF_SIZE - 1 /\ ReadN(n)

\* ingest(bytes) with a chunk of any size, the read cap of BUF_SIZE - 1 lifted
Ingest == \E n \in IngestLens : ReadN(n)

(* ------------------------------------------------------------------------ *)
(* Specifications.                                                          *)
(* ------------------------------------------------------------------------ *)
Init == stream \in Scripts /\ InitTask
Next == Read \/ ReadTimeout \/ ParseStep \/ ExecStep \/ SendAck
Spec == Init /\ [][Next]_vars

InitFlood == stream \in FloodStreams /\ InitTask
NextFlood == ReadFlood \/ ReadTimeout \/ ParseStep \/ ExecStep \/ SendAck
SpecFlood == InitFlood /\ [][NextFlood]_vars

NextIngest == Ingest \/ ReadTimeout \/ ParseStep \/ ExecStep \/ SendAck
SpecIngest == InitFlood /\ [][NextIngest]_vars

\* the task with move_servo taken step by step
InitSweep == stream \in SweepScripts /\ InitTask
NextSweep ==
    Read \/ ReadTimeout \/ ParseStep \/ ExecEnter \/ SetDuty \/ UpdateDuty \/ StepWake
        \/ PauseWake \/ SendAck
SpecSweep == InitSweep /\ [][NextSweep]_vars

(* ------------------------------------------------------------------------ *)
(* Properties.                                                              *)
(* ------------------------------------------------------------------------ *)
\* the bytes the read of this step appended (the step is a read)
ChunkRead == SubSeq(stream, nread + 1, nread')

IsRead == pc = "read" /\ nread' > nread

\* C1: in every reachable state of the receive task, whatever was read (each
\* read 1..BUF_SIZE-1 bytes) and parsed, 0 <= rx_len <= RX_ACCUM_SIZE.
C1_RxLenBounded == Len(rx_buf) >= 0 /\ Len(rx_buf) <= RX_ACCUM_SIZE

\* the buffer is full and the append has dropped bytes to keep it so
C1_Witness == Len(rx_buf) = RX_ACCUM_SIZE /\ evicted > 0

\* C2: an append of a chunk no longer than the capacity leaves in the buffer
\* the last min(capacity, len(B) + len(chunk)) bytes of B \o chunk: only the
\* max(0, len(B) + len(chunk) - capacity) oldest bytes go, and the order of
\* the others is kept.
C2_EvictsMinimum ==
    [][(IsRead /\ Len(ChunkRead) <= RX_ACCUM_SIZE)
         => /\ rx_buf' = LastN(rx_buf \o ChunkRead,
                               Min(RX_ACCUM_SIZE, Len(rx_buf) + Len(ChunkRead)))
            /\ evicted' - evicted = Max(0, (Len(rx_buf) + Len(ChunkRead)) - RX_ACCUM_SIZE)]_vars

\* 300 bytes of junk were buffered and a chunk of RX_ACCUM_SIZE - 1 bytes was
\* appended: 299 bytes were dropped and the last old byte is kept
C2_Witness ==
    /\ stream = Junk(FloodLen)
    /\ pc = "parse"
    /\ nread = RX_ACCUM_SIZE + 299
    /\ evicted = 299
    /\ rx_buf = SubSeq(stream, 300, nread)

WellFormed(b) ==
    /\ b[1] = 170
    /\ b[2] = 1
    /\ b[8] = 85
    /\ b[7] = (b[2] + b[3] + b[4] + b[5] + b[6]) % 256

\* how many times channel ch occurs in the sweep history s
SweepCount(s, ch) == Cardinality({i \in 1..Len(s) : s[i] = ch})

\* C4: 8 well-formed bytes at the buffer head are accepted; the counts
\* dispatched are bytes 2..5 as they are; then 8 bytes leave the buffer head
\* and one reply "done", "SAURON_UART_V1" with those counts is written.
C4_ValidFrameAccepted ==
    /\ [][(pc = "parse" /\ Len(rx_buf) >= 8 /\ WellFormed(rx_buf))
            => /\ pc' = "exec"
               /\ proto' = "SAURON_UART_V1"
               /\ counts' = <<rx_buf[3], rx_buf[4], rx_buf[5], rx_buf[6]>>
               /\ rx_buf' = rx_buf
               /\ acks' = acks]_vars
    /\ [][(pc = "exec" /\ proto = "SAURON_UART_V1")
            => /\ rx_buf' = rx_buf
               /\ counts' = counts
               /\ acks' = acks]_vars
    /\ [][(pc = "ack" /\ proto = "SAURON_UART_V1")
            => /\ \A ch \in Channels : SweepCount(sweeps, ch) = rx_buf[3 + ch]
               /\ acks' = Append(acks, [status |-> "done", protocol |-> "SAURON_UART_V1",
                                        counts |-> <<rx_buf[3], rx_buf[4], rx_buf[5], rx_buf[6]>>])
               /\ rx_buf' = SubSeq(rx_buf, 9, Len(rx_buf))]_vars

\* the frame AA 01 FF 01 00 00 01 55 was sent alone and has been answered
C4_Witness ==
    /\ stream = <<170, 1, 255, 1, 0, 0, 1, 85>>
    /\ rx_buf = <<>>
    /\ acks = <<[status |-> "done", protocol |-> "SAURON_UART_V1", counts |-> <<255, 1, 0, 0>>]>>

Reply(st, pr, c) == [status |-> st, protocol |-> pr, counts |-> c]

\* everything sent has been read and the task is back at uart_read_bytes
Drained == nread = Len(stream) /\ pc = "read"

\* 8 bytes with both markers and the version right and the checksum wrong
BadChecksum(b) ==
    /\ b[1] = 170
    /\ b[2] = 1
    /\ b[8] = 85
    /\ b[7] # (b[2] + b[3] + b[4] + b[5] + b[6]) % 256

\* C5 (as claimed): 8 bytes with the markers right and the checksum wrong,
\* then a well-formed frame, sent to the empty accumulator: once all is read
\* and parsed the 8 bytes are gone without a reply and the frame behind them
\* has been dispatched and answered.
C5_RecoversAfterBadChecksum ==
    (/\ Len(stream) = 16
     /\ BadChecksum(SubSeq(stream, 1, 8))
     /\ WellFormed(SubSeq(stream, 9, 16))
     /\ Drained)
      => /\ rx_buf = <<>>
         /\ acks = <<Reply("done", "SAURON_UART_V1",
                           <<stream[11], stream[12], stream[13], stream[14]>>)>>

\* C6 (as claimed): 8 bytes that start with 0xAA and are not a well-formed
\* frame, sent alone: no reply of any status and no dispatch, ever.
C6_MalformedFrameSilent ==
    (/\ Len(stream) = 8
     /\ stream[1] = 170
     /\ ~WellFormed(stream))
      => /\ acks = <<>>
         /\ pc \notin {"exec", "ack"}

\* C7 (as claimed): between commands the replies written are as many as the
\* frames accepted plus the lines extracted that were not all whitespace;
\* while a command is handled its reply is the one still due.
C7_OneReplyEach ==
    /\ pc \in {"read", "parse"} => Len(acks) = nFrames + nLines
    /\ pc \in {"exec", "ack"} => Len(acks) + 1 = nFrames + nLines

InRange(c, lo, hi) == \A i \in 1..4 : c[i] >= lo /\ c[i] <= hi

\* C8 (as claimed): every count dispatched or replied is in 0..20.
C8_CountsAtMost20 ==
    /\ pc \in {"exec", "ack"} => InRange(counts, 0, 20)
    /\ \A i \in 1..Len(acks) : InRange(acks[i].counts, 0, 20)

\* C8 (amended): every count dispatched or replied for a JSON line is in
\* 0..20, and for a binary frame in 0..255.
C8_CountsInProtocolRange ==
    /\ pc \in {"exec", "ack"}
         => InRange(counts, 0, IF proto = "json_line" THEN 20 ELSE 255)
    /\ \A i \in 1..Len(acks) :
         InRange(acks[i].counts, 0, IF acks[i].protocol = "json_line" THEN 20 ELSE 255)

\* {"Tylenol":9999} was answered with 20, and a frame with 255
C8_Witness ==
    \/ acks = <<Reply("done", "json_line", <<0, 0, 0, 20>>)>>
         /\ stream = Line1(PillNames[4], 9999)
    \/ acks = <<Reply("done", "SAURON_UART_V1", <<0, 0, 0, 255>>)>>

\* the line of the stream's first message has been handed to the handler
FirstHandled == acks # <<>> \/ pc \in {"exec", "ack"}

\* the counts of the stream's first command: dispatched, then replied
FirstCounts == IF acks # <<>> THEN acks[1].counts ELSE counts
FirstStatus == IF acks # <<>> THEN acks[1].status ELSE status
FirstProto == IF acks # <<>> THEN acks[1].protocol ELSE proto

\* C9: a line {"<name>":v} with a recognized name dispatches and replies
\* min(20, max(0, v)) for that name's channel and 0 for the others; a line
\* with an unrecognized key or a value that is no number is "done" with all
\* counts 0.
C9_LineCountsClamped ==
    /\ \A k \in 1..4 : \A v \in LineValues :
         (StartsWith(stream, 1, Line1(PillNames[k], v)) /\ FirstHandled)
           => /\ FirstCounts = [ZeroCounts EXCEPT ![k] = Min(20, Max(0, v))]
              /\ FirstStatus = "done"
              /\ FirstProto = "json_line"
    /\ \A m \in {FooLine, TextValueLine} :
         (StartsWith(stream, 1, m) /\ FirstHandled)
           => /\ FirstCounts = ZeroCounts
              /\ FirstStatus = "done"
              /\ FirstProto = "json_line"

\* {"Tylenol":9999} was answered with 20 for channel 3
C9_Witness ==
    /\ stream = Line1(PillNames[4], 9999)
    /\ Drained
    /\ acks = <<Reply("done", "json_line", <<0, 0, 0, 20>>)>>

\* n times the channel ch
Repeat(ch, n) == [k \in 1..n |-> ch]

\* the sweeps of a dispatch of c when the channel loop is at channel i and the
\* repetition loop at r: all of channels 0..i-1, r of channel i
SweepsUpTo(c, i, r) ==
    LET all(ch) == IF ch < i THEN Repeat(ch, Max(0, c[ch + 1])) ELSE <<>>
    IN all(0) \o all(1) \o all(2) \o all(3) \o (IF i < 4 THEN Repeat(i, r) ELSE <<>>)

\* C10: in a dispatch of counts[0..3] the sweeps done so far are those of the
\* channels before the current one, each counts[i] times, in ascending order,
\* then those of the current channel; the reply is written after the last
\* sweep, carries those counts and is the only one of the dispatch.
C10_DispatchOrder ==
    /\ [](pc = "exec" => (sweeps = SweepsUpTo(counts, idx, rep) /\ rep <= Max(0, counts[Min(idx, 3) + 1])))
    /\ []((pc = "ack" /\ status = "done") => sweeps = SweepsUpTo(counts, 4, 0))
    /\ [][pc = "exec" => (acks' = acks /\ counts' = counts)]_vars
    /\ [][(pc = "ack" /\ status = "done")
            => acks' = Append(acks, Reply("done", proto, counts))]_vars

\* a dispatch of [0,2,0,1] is done: two sweeps of channel 1, then one of 3
C10_Witness ==
    /\ pc = "ack"
    /\ counts = <<0, 2, 0, 1>>
    /\ sweeps = <<1, 1, 3>>

\* the parse loop is at a line: the head byte starts no frame and a newline
\* is buffered; the line is what precedes the first newline
AtLine == pc = "parse" /\ rx_buf # <<>> /\ rx_buf[1] # 170 /\ \E i \in 1..Len(rx_buf) : rx_buf[i] = 10

LineLen == (CHOOSE i \in 1..Len(rx_buf) : rx_buf[i] = 10 /\ \A j \in 1..(i - 1) : rx_buf[j] # 10) - 1

HeadLine == SubSeq(rx_buf, 1, LineLen)

\* the text parses as no JSON value at all
Unparsable(text) == ~cJSON_Parse(TrimLeading(text)).ok

\* C11 (as claimed): a line that is not all whitespace and parses as no JSON
\* value is taken from the buffer with its newline and answered "bad_json",
\* "json_line", [0,0,0,0], without a duty update, and the parse loop goes on.
C11_BadLineAnswered ==
    /\ [][(AtLine /\ ~IsBlank(HeadLine) /\ Unparsable(HeadLine))
            => /\ pc' = "ack"
               /\ status' = "bad_json"
               /\ proto' = "json_line"
               /\ counts' = ZeroCounts
               /\ rx_buf' = SubSeq(rx_buf, LineLen + 2, Len(rx_buf))
               /\ acks' = acks
               /\ duty' = duty
               /\ hw_duty' = hw_duty]_vars
    /\ [][(pc = "ack" /\ status = "bad_json")
            => /\ acks' = Append(acks, Reply("bad_json", "json_line", ZeroCounts))
               /\ pc' = "parse"
               /\ rx_buf' = rx_buf
               /\ duty' = duty
               /\ hw_duty' = hw_duty]_vars

\* C12 (as claimed): the stream is K >= 1 bytes of noise (no newline, no
\* 0xAA) and then a line {"<name>":v}: no reply but the "done" of that
\* command is ever written, and it is written once all is read and parsed.
C12_NoiseThenCommand ==
    \A k \in 1..(Len(stream) - 1) : \A n \in 1..4 : \A v \in 0..MAX_JSON_COUNT :
        (/\ \A i \in 1..k : stream[i] \notin {10, 170}
         /\ SubSeq(stream, k + 1, Len(stream)) = Line1(PillNames[n], v))
          => LET done == Reply("done", "json_line",
                               [ZeroCounts EXCEPT ![n] = Min(20, Max(0, v))])
             IN /\ acks \in {<<>>, <<done>>}
                /\ Drained => (acks = <<done>> /\ rx_buf = <<>>)

\* C13: the parse loop has made at most as many consuming iterations as the
\* buffer has lost bytes since the loop was entered (so at most n for a
\* buffer of n bytes); an iteration either leaves the loop with the buffer
\* as it is, or drops 1 byte, or takes a line and its newline, or dispatches
\* a frame, whose 8 bytes leave the buffer after the reply.
C13_ParseLoopTerminates ==
    /\ [](pc # "read" => (passes >= 0 /\ passes + Len(rx_buf) <= len0))
    /\ [][pc = "parse"
            => \/ pc' = "read" /\ rx_buf' = rx_buf
               \/ pc' = "parse" /\ Len(rx_buf') = Len(rx_buf) - 1
               \/ AtLine /\ Len(rx_buf') = Len(rx_buf) - (LineLen + 1)
               \/ pc' = "exec" /\ proto' = "SAURON_UART_V1" /\ rx_buf' = rx_buf]_vars
    /\ [][(pc = "ack" /\ proto = "SAURON_UART_V1")
            => (Len(rx_buf') = Len(rx_buf) - 8 /\ pc' = "parse")]_vars
    /\ [][(pc = "exec" \/ (pc = "ack" /\ proto # "SAURON_UART_V1"))
            => rx_buf' = rx_buf]_vars

\* two bytes of noise were read at once and dropped in two iterations
C13_Witness == pc = "parse" /\ len0 = 2 /\ passes = 2 /\ rx_buf = <<>>

\* some 8 bytes of the buffer are a well-formed frame
HoldsFrame(b) == \E i \in 1..(Len(b) - 7) : WellFormed(SubSeq(b, i, i + 7))

\* C14 (as claimed): once all that was sent is read and the parse loop has
\* stopped, no well-formed frame is left behind in the buffer (bytes stuck
\* at the buffer head block no later command).
C14_NoCommandBlocked == Drained => ~HoldsFrame(rx_buf)

\* C15: a dispatch of [0,0,0,0] never enters move_servo and changes no duty
\* on its way to the reply, and its reply is "done" with [0,0,0,0], the one
\* reply of the dispatch.
C15_ZeroDispatchIdle ==
    /\ []((pc \in {"exec", "ack"} /\ status = "done" /\ counts = ZeroCounts) => sweeps = <<>>)
    /\ [][(pc = "exec" /\ counts = ZeroCounts)
            => /\ pc' \in {"exec", "ack"}
               /\ duty' = duty
               /\ hw_duty' = hw_duty
               /\ acks' = acks]_vars
    /\ [][(pc = "ack" /\ status = "done" /\ counts = ZeroCounts)
            => /\ acks' = Append(acks, Reply("done", proto, ZeroCounts))
               /\ pc' = "parse"
               /\ duty' = duty
               /\ hw_duty' = hw_duty]_vars

\* the frame AA 01 00 00 00 00 01 55 was sent alone and has been answered
C15_Witness ==
    /\ stream = <<170, 1, 0, 0, 0, 0, 1, 85>>
    /\ Drained
    /\ acks = <<Reply("done", "SAURON_UART_V1", ZeroCounts)>>

\* C16: a line of spaces, tabs and carriage returns, or an empty line, is
\* taken from the buffer with its newline; no reply is written or due, no
\* dispatch starts and no duty changes.
C16_BlankLineIgnored ==
    [][(AtLine /\ IsBlank(HeadLine))
         => /\ rx_buf' = SubSeq(rx_buf, LineLen + 2, Len(rx_buf))
            /\ pc' = "parse"
            /\ acks' = acks
            /\ duty' = duty
            /\ hw_duty' = hw_duty
            /\ UNCHANGED dispatchVars]_vars

\* the line " \r" was sent alone and is gone without a reply
C16_Witness ==
    /\ stream = <<32, 13, 10>>
    /\ Drained
    /\ rx_buf = <<>>
    /\ acks = <<>>

\* the angle of the k-th step of a sweep, k in 1..82
AngleOfStep(k) == IF k <= 41 THEN ((k - 1) * 180) \div 40 ELSE 180 - ((k - 42) * 180) \div 40

\* C17: a step of a sweep sets the duty of the swept channel, then commits
\* it, then suspends for MOVE_DURATION_MS / (2 * SERVO_STEP_COUNT) ms; the
\* committed duty is that of the step's angle; the angles rise from 0 to
\* 180 and then fall from 180 to 0, so the first and the last duty of a
\* sweep are duty(0); no other channel's duty changes.
C17_SweepSteps ==
    /\ [][pc = "set"
            => /\ pc' = "update"
               /\ duty'[idx] = angle_to_duty(AngleOfStep(step))
               /\ hw_duty' = hw_duty
               /\ \A c \in Channels \ {idx} : duty'[c] = duty[c]]_vars
    /\ [][pc = "update"
            => /\ pc' = "delay"
               /\ hw_duty'[idx] = duty[idx]
               /\ duty' = duty
               /\ wait' = 1000 \div (2 * 40)
               /\ \A c \in Channels \ {idx} : hw_duty'[c] = hw_duty[c]]_vars
    /\ [][pc = "delay"
            => /\ pc' = (IF step < 82 THEN "set" ELSE "pause")
               /\ duty' = duty
               /\ hw_duty' = hw_duty]_vars
    /\ [][(pc = "update" /\ step <= 41) => hw_duty'[idx] >= hw_duty[idx]]_vars
    /\ [][(pc = "update" /\ step > 41) => hw_duty'[idx] <= hw_duty[idx]]_vars
    /\ [](pc = "delay" => /\ step \in 1..82
                          /\ step \in {1, 82} => hw_duty[idx] = angle_to_duty(0)
                          /\ step \in {41, 42} => hw_duty[idx] = angle_to_duty(180))
    /\ [](/\ \A k \in 1..40 : AngleOfStep(k) <= AngleOfStep(k + 1)
          /\ \A k \in 42..81 : AngleOfStep(k) >= AngleOfStep(k + 1)
          /\ AngleOfStep(1) = 0 /\ AngleOfStep(41) = 180
          /\ AngleOfStep(42) = 180 /\ AngleOfStep(82) = 0)

\* channel 1 is at the top of a sweep: step 41 has committed duty(180)
C17_Witness ==
    /\ pc = "delay"
    /\ idx = 1
    /\ step = 41
    /\ hw_duty[1] = angle_to_duty(180)
    /\ hw_duty[1] > angle_to_duty(0)

\* the three buffers the parse loop stops at
StopEmpty(b) == b = <<>>
StopFrameWait(b) == b # <<>> /\ b[1] = 170 /\ Len(b) < 8
StopLineWait(b) == b # <<>> /\ b[1] \in {123, 32, 9, 13} /\ \A i \in 1..Len(b) : b[i] # 10

\* C18: when the task waits for serial bytes the buffer is empty, or a
\* frame start with fewer than 8 bytes, or a line start with no newline
\* (exactly one of the three); the step that stops the parse loop changes
\* neither the buffer nor the replies nor a duty and starts no dispatch.
C18_StopStates ==
    /\ [](pc = "read"
            => Cardinality({k \in 1..3 : (k = 1 /\ StopEmpty(rx_buf))
                                           \/ (k = 2 /\ StopFrameWait(rx_buf))
                                           \/ (k = 3 /\ StopLineWait(rx_buf))}) = 1)
    /\ [][(pc = "parse" /\ pc' = "read")
            => /\ rx_buf' = rx_buf
               /\ acks' = acks
               /\ duty' = duty
               /\ hw_duty' = hw_duty
               /\ UNCHANGED dispatchVars]_vars

\* the task waits with the start of a line, "{...", in the buffer
C18_Witness ==
    /\ pc = "read"
    /\ StopLineWait(rx_buf)
    /\ rx_buf[1] = 123
    /\ nread < Len(stream)

\* C19 (as claimed): once a stream that one read can hold is read, in
\* whatever pieces, and parsed, the replies written (each "done" reply
\* tells the sweeps dispatched before it) are those of the parse loop run
\* on the whole stream read at once.
C19_TearingIndependent ==
    (Len(stream) <= BUF_SIZE - 1 /\ Drained) => acks = ParseLoop(stream, <<>>)

\* C20: while the task waits for serial bytes each channel's duty, set and
\* committed, is duty(0); and no step outside ledc_set_duty and
\* ledc_update_duty of a sweep changes a duty.
C20_RestWhenWaiting ==
    /\ [](pc = "read" => \A c \in Channels : /\ duty[c] = angle_to_duty(0)
                                             /\ hw_duty[c] = angle_to_duty(0))
    /\ [](angle_to_duty(0) = (500 * 65535) \div 20000)
    /\ [][(pc \in {"read", "parse", "exec", "ack", "delay", "pause"})
            => (duty' = duty /\ hw_duty' = hw_duty)]_vars

\* the task waits again after the dispatch of [0,2,0,1], three sweeps
C20_Witness ==
    /\ pc = "read"
    /\ acks # <<>>
    /\ acks[Len(acks)].counts = <<0, 2, 0, 1>>
    /\ nread = Len(stream)

====
